---------------------------- MODULE Spec2Model ----------------------------
(***************************************************************************)
(* The fork-aware accounts store of smolchain: VersionedAccount and        *)
(* AccountsDb (src/src/accounts_db.rs) and the Bank facade                 *)
(* (src/src/main.rs), run by several threads that share one AccountsDb.    *)
(*                                                                         *)
(* The DashMap that holds the accounts is modelled by what its operations  *)
(* do: the map is split into shards, each guarded by one reader-writer     *)
(* lock; a Ref holds its shard's lock shared and a RefMut holds it         *)
(* exclusively until dropped; contains_key, insert and iter_mut wait for   *)
(* the lock, try_get and try_get_mut give up with Locked.  The shard of a  *)
(* key is decided by a randomly seeded hash, so it is chosen freely in     *)
(* Init.                                                                   *)
(***************************************************************************)
EXTENDS Integers, Sequences, FiniteSets, TLC

\* ------------------------------------------------------------------ bounds
\* Slots 0 .. MaxSlot exist; the store holds at most MaxInflight inflight updates
\* in all when one caller runs alone, and at most MaxParInflight when the
\* threads run together, on banks of slots 0 .. MaxParSlot.
MaxSlot == 3
MaxInflight == 3
MaxParSlot == 2
MaxParInflight == 2
NumShards == 3
\* Bank::apply: the store holds at most MaxApplyInflight inflight updates and a
\* transfer leaves the receiver at most MaxMoved.
MaxApplyInflight == 2
MaxMoved == 2

\* --------------------------------------------------------------- constants
GENESIS_SUPPLY == 1000000

Threads == {"t1", "t2"}
AccountIds == {0, 1}
Slots == 0 .. MaxSlot
Shards == 1 .. NumShards
\* The balances a caller assigns; GENESIS_SUPPLY and 0 (Account::default) are
\* the values the store makes itself.
Balances == {1}

VARIABLES
    accounts,           \* AccountsDb.accounts: the keys present and their VersionedAccount
    finalized_slot,     \* AccountsDb.finalized_slot
    shard_of,           \* the shard each key hashes to
    parent,             \* the fork tree: parent[s] is the slot bank s was made from
    pc,                 \* where each thread is
    bank,               \* the slot of the Bank whose finalize the thread runs
    read_account_ids,   \* load_versioned_accounts: its arguments ...
    write_account_ids,
    idx,                \* ... the position of the loop it is in ...
    read_accounts,      \* ... and the Refs and RefMuts taken so far, by key
    write_accounts,
    loaded,             \* the RefMuts whose load_account result (&mut Account) is in use
    shard_i             \* finalize: the shard iter_mut holds (0: none yet)

vars == <<accounts, finalized_slot, shard_of, parent, pc, bank, read_account_ids,
          write_account_ids, idx, read_accounts, write_accounts, loaded, shard_i>>

\* ------------------------------------------------------------------- values
\* Option<T> is a sequence of length 0 (None) or 1 (Some).
NoneOpt == <<>>
Some(x) == <<x>>

Account(b) == [balance |-> b]
DefaultAccount == Account(0)

EmptyVersionedAccount == [finalized_acc |-> NoneOpt, inflight_updates |-> <<>>]

Max(S) == CHOOSE x \in S : \A y \in S : y <= x

Contains(slots, slot) == \E i \in 1 .. Len(slots) : slots[i] = slot

Last(seq) == seq[Len(seq)]

\* The positions of the inflight updates whose slot is one of slots_to_include.
Included(q, slots_to_include) ==
    {i \in 1 .. Len(q) : Contains(slots_to_include, q[i][1])}

\* ---------------------------------------------------------- VersionedAccount
\* A plausible slip: the newest update is returned whatever fork wrote it.
get_account_any_fork(va, slots_to_include) ==
    IF Len(va.inflight_updates) > 0
    THEN Some(Last(va.inflight_updates)[2])
    ELSE va.finalized_acc

get_account(va, slots_to_include) ==
    LET q == va.inflight_updates
        hits == Included(q, slots_to_include)
    IN  IF hits # {} THEN Some(q[Max(hits)][2]) ELSE va.finalized_acc

\* A plausible slip: the copy is always taken from the finalized value, the
\* updates of the chain are not searched.
load_account_from_finalized(va, slots_to_include) ==
    LET q == va.inflight_updates
        current_slot == Last(slots_to_include)
    IN  IF Len(q) > 0 /\ q[Len(q)][1] = current_slot
        THEN va
        ELSE IF va.finalized_acc # NoneOpt
        THEN [va EXCEPT !.inflight_updates = Append(q, <<current_slot, va.finalized_acc[1]>>)]
        ELSE [va EXCEPT !.inflight_updates = Append(q, <<current_slot, DefaultAccount>>)]

\* The VersionedAccount after load_account; the &mut Account it returns is the
\* last inflight update's account.
load_account(va, slots_to_include) ==
    LET q == va.inflight_updates
        current_slot == Last(slots_to_include)
        hits == Included(q, slots_to_include)
    IN  IF Len(q) > 0 /\ q[Len(q)][1] = current_slot
        THEN va
        ELSE IF hits # {}
        THEN [va EXCEPT !.inflight_updates = Append(q, <<current_slot, q[Max(hits)][2]>>)]
        ELSE IF va.finalized_acc # NoneOpt
        THEN [va EXCEPT !.inflight_updates = Append(q, <<current_slot, va.finalized_acc[1]>>)]
        ELSE [va EXCEPT !.inflight_updates = Append(q, <<current_slot, DefaultAccount>>)]

\* A plausible slip: the last update is overwritten whatever its slot.
set_account_overwrite_last(va, account, slot) ==
    LET q == va.inflight_updates
    IN  IF Len(q) > 0
        THEN [va EXCEPT !.inflight_updates = [q EXCEPT ![Len(q)] = <<q[Len(q)][1], account>>]]
        ELSE [va EXCEPT !.inflight_updates = Append(q, <<slot, account>>)]

set_account(va, account, slot) ==
    LET q == va.inflight_updates
    IN  IF Len(q) > 0 /\ q[Len(q)][1] = slot
        THEN [va EXCEPT !.inflight_updates = [q EXCEPT ![Len(q)] = <<slot, account>>]]
        ELSE [va EXCEPT !.inflight_updates = Append(q, <<slot, account>>)]

\* An assignment through the &mut Account that load_account returned.
assign_balance(va, b) ==
    LET q == va.inflight_updates
    IN  [va EXCEPT !.inflight_updates = [q EXCEPT ![Len(q)] = <<q[Len(q)][1], Account(b)>>]]

\* A plausible slip: every update at or below the tip is promoted, the losing
\* siblings' too.
RECURSIVE finalize_account_promote_all(_, _, _)
finalize_account_promote_all(va, slots, tip) ==
    LET q == va.inflight_updates
    IN  IF q = <<>> THEN va
        ELSE IF Head(q)[1] <= tip
        THEN finalize_account_promote_all(
                 [finalized_acc |-> Some(Head(q)[2]), inflight_updates |-> Tail(q)],
                 slots, tip)
        ELSE va

\* A plausible slip: the update popped and found above the tip is not pushed
\* back to the front.
RECURSIVE finalize_account_no_push_front(_, _, _)
finalize_account_no_push_front(va, slots, tip) ==
    LET q == va.inflight_updates
    IN  IF q = <<>> THEN va
        ELSE IF Head(q)[1] <= tip
        THEN finalize_account_no_push_front(
                 [finalized_acc |-> IF Contains(slots, Head(q)[1])
                                    THEN Some(Head(q)[2])
                                    ELSE va.finalized_acc,
                  inflight_updates |-> Tail(q)],
                 slots, tip)
        ELSE [va EXCEPT !.inflight_updates = Tail(q)]

\* The closure finalize runs on one VersionedAccount: pop from the front while
\* the update's slot is <= tip, keeping the value of those on the chain.
RECURSIVE finalize_account(_, _, _)
finalize_account(va, slots, tip) ==
    LET q == va.inflight_updates
    IN  IF q = <<>> THEN va
        ELSE IF Head(q)[1] <= tip
        THEN finalize_account(
                 [finalized_acc |-> IF Contains(slots, Head(q)[1])
                                    THEN Some(Head(q)[2])
                                    ELSE va.finalized_acc,
                  inflight_updates |-> Tail(q)],
                 slots, tip)
        ELSE va

\* ------------------------------------------------------------------- Bank
genesis_bank == [slot |-> 0, ancestors |-> <<0>>]

new_from_parent(b, slot) == [slot |-> slot, ancestors |-> Append(b.ancestors, slot)]

\* The Bank of slot s in the fork tree: made from its parent's by new_from_parent.
RECURSIVE BankAt(_)
BankAt(s) == IF s = 0 THEN genesis_bank ELSE new_from_parent(BankAt(parent[s]), s)

Ancestors(t) == BankAt(bank[t]).ancestors

\* The chain of genesis and the slots of S, in the order new_from_parent appends
\* them: each later than the one before.
RECURSIVE ChainOf(_)
ChainOf(S) == IF S = {} THEN genesis_bank.ancestors
              ELSE Append(ChainOf(S \ {Max(S)}), Max(S))

\* Every ancestor chain a Bank can carry.
Chains == {ChainOf(S) : S \in SUBSET (1 .. MaxSlot)}

\* ---------------------------------------------------------------- DashMap
contains_key(id) == id \in DOMAIN accounts

\* DashMap::insert: the value of an existing key is replaced.
insert(id, va) == [k \in DOMAIN accounts \cup {id} |-> IF k = id THEN va ELSE accounts[k]]

Range(seq) == {seq[i] : i \in 1 .. Len(seq)}

\* The shard's lock is held exclusively: by a RefMut or by finalize's iter_mut.
WriteLocked(s) ==
    \E t \in Threads :
        \/ \E k \in Range(write_accounts[t]) : shard_of[k] = s
        \/ pc[t] = "fin_iter" /\ shard_i[t] = s

\* The shard's lock is held shared: by a Ref.
ReadLocked(s) ==
    \E t \in Threads : \E k \in Range(read_accounts[t]) : shard_of[k] = s

\* A plausible slip: an exclusive lock is granted while readers hold the shard.
try_write_ignoring_readers(s) == ~WriteLocked(s)

try_read(s) == ~WriteLocked(s)
try_write(s) == ~WriteLocked(s) /\ ~ReadLocked(s)


\* --------------------------------------------------------------- AccountsDb
genesis_database ==
    [finalized_slot |-> 0,
     accounts |-> (0 :> [finalized_acc |-> Some(Account(GENESIS_SUPPLY)),
                         inflight_updates |-> <<>>])]

\* Bank::get_account: None when the key has no entry.
BankGetAccount(ancestors, id) ==
    IF contains_key(id) THEN get_account(accounts[id], ancestors) ELSE NoneOpt

\* The argument lists of a call: no or one read id, up to two write ids.
ReadIdLists == {<<>>} \cup {<<a>> : a \in AccountIds}
WriteIdLists == {<<>>} \cup {<<a>> : a \in AccountIds}
                    \cup {<<a, b>> : a \in AccountIds, b \in AccountIds}
CallArgs == {a \in ReadIdLists \X WriteIdLists : Len(a[1]) + Len(a[2]) \in 1 .. 2}

\* The calls of the threads that run together: a write of one account, the
\* two-account write of Bank::apply, and on the account that is not there at
\* first a read, a read with a write of the same id, and a write of it twice.
ParArgs ==
    {a \in CallArgs :
        \/ a[1] = <<>> /\ Len(a[2]) = 1
        \/ a[1] = <<>> /\ a[2] = <<0, 1>>
        \/ a[1] = <<1>> /\ a[2] \in {<<>>, <<1>>}
        \/ a[1] = <<>> /\ a[2] = <<1, 1>>}

\* The fork trees: every slot but genesis is made from an earlier slot's bank.
\* Slots above `top` are not used and hang off genesis.
ForkTrees(top) ==
    {f \in [1 .. MaxSlot -> Slots] :
        \A s \in 1 .. MaxSlot : f[s] < s /\ (s > top => f[s] = 0)}

\* The inflight updates the store holds in all.
RECURSIVE SumLen(_, _)
SumLen(f, S) ==
    IF S = {} THEN 0
    ELSE LET k == CHOOSE x \in S : TRUE
         IN  Len(f[k].inflight_updates) + SumLen(f, S \ {k})

TotalInflight(f) == SumLen(f, DOMAIN f)

ThreadsIdle ==
    /\ pc = [t \in Threads |-> "idle"]
    /\ bank = [t \in Threads |-> 0]
    /\ read_account_ids = [t \in Threads |-> <<>>]
    /\ write_account_ids = [t \in Threads |-> <<>>]
    /\ idx = [t \in Threads |-> 1]
    /\ read_accounts = [t \in Threads |-> <<>>]
    /\ write_accounts = [t \in Threads |-> <<>>]
    /\ loaded = [t \in Threads |-> {}]
    /\ shard_i = [t \in Threads |-> 0]

Init ==
    /\ accounts = genesis_database.accounts
    /\ finalized_slot = genesis_database.finalized_slot
    /\ shard_of \in [AccountIds -> Shards]
    /\ parent \in ForkTrees(MaxParSlot)
    /\ ThreadsIdle

\* ------------------------------------------- load_versioned_accounts, by step
AllIds(t) == read_account_ids[t] \o write_account_ids[t]

\* Where the call goes when a loop ends: to the next loop that has an element.
AfterReadOf(wids) == IF Len(wids) > 0 THEN "write" ELSE "held"
AfterEnsureOf(rids, wids) == IF Len(rids) > 0 THEN "read" ELSE AfterReadOf(wids)
AfterRead(t) == AfterReadOf(write_account_ids[t])
AfterEnsure(t) == AfterEnsureOf(read_account_ids[t], write_account_ids[t])

\* The loop over n elements moves on, or ends and the call goes to `next`.
Advance(t, n, next) ==
    IF idx[t] < n
    THEN /\ idx' = [idx EXCEPT ![t] = idx[t] + 1]
         /\ pc' = [pc EXCEPT ![t] = pc[t]]
    ELSE /\ idx' = [idx EXCEPT ![t] = 1]
         /\ pc' = [pc EXCEPT ![t] = next]

\* The call's own variables, back to what an idle thread has.
ResetCall(t) ==
    /\ read_account_ids' = [read_account_ids EXCEPT ![t] = <<>>]
    /\ write_account_ids' = [write_account_ids EXCEPT ![t] = <<>>]
    /\ idx' = [idx EXCEPT ![t] = 1]
    /\ loaded' = [loaded EXCEPT ![t] = {}]

\* A plausible slip: the handles taken so far are kept when the call fails.
DropHandlesLeak(t) ==
    UNCHANGED <<read_accounts, write_accounts>>

\* read_accounts and write_accounts go out of scope: their locks are released.
DropHandles(t) ==
    /\ read_accounts' = [read_accounts EXCEPT ![t] = <<>>]
    /\ write_accounts' = [write_accounts EXCEPT ![t] = <<>>]

\* A thread enters load_versioned_accounts and its first loop makes its first
\* contains_key, which waits for the shard's lock.
LoadVersionedAccounts(t, rids, wids) ==
    /\ pc[t] = "idle"
    /\ read_account_ids' = [read_account_ids EXCEPT ![t] = rids]
    /\ write_account_ids' = [write_account_ids EXCEPT ![t] = wids]
    /\ LET all == rids \o wids
       IN  /\ try_read(shard_of[all[1]])
           /\ IF ~contains_key(all[1])
              THEN /\ pc' = [pc EXCEPT ![t] = "insert"]
                   /\ idx' = [idx EXCEPT ![t] = 1]
              ELSE IF Len(all) > 1
              THEN /\ pc' = [pc EXCEPT ![t] = "ensure"]
                   /\ idx' = [idx EXCEPT ![t] = 2]
              ELSE /\ pc' = [pc EXCEPT ![t] = AfterEnsureOf(rids, wids)]
                   /\ idx' = [idx EXCEPT ![t] = 1]
    /\ UNCHANGED <<accounts, finalized_slot, shard_of, parent, bank, read_accounts,
                   write_accounts, loaded, shard_i>>

\* A later contains_key of the first loop.
EnsureContains(t) ==
    /\ pc[t] = "ensure"
    /\ LET id == AllIds(t)[idx[t]]
       IN  /\ try_read(shard_of[id])
           /\ IF contains_key(id)
              THEN Advance(t, Len(AllIds(t)), AfterEnsure(t))
              ELSE /\ pc' = [pc EXCEPT ![t] = "insert"]
                   /\ UNCHANGED idx
    /\ UNCHANGED <<accounts, finalized_slot, shard_of, parent, bank, read_account_ids,
                   write_account_ids, read_accounts, write_accounts, loaded, shard_i>>

\* initialize_empty_versioned_account: DashMap::insert, which waits for the
\* shard's lock and replaces whatever the key holds.  The loop then goes on to
\* the contains_key of its next element.
EnsureInsert(t) ==
    /\ pc[t] = "insert"
    /\ LET id == AllIds(t)[idx[t]]
       IN  /\ try_write(shard_of[id])
           /\ accounts' = insert(id, EmptyVersionedAccount)
    /\ IF idx[t] < Len(AllIds(t))
       THEN /\ idx' = [idx EXCEPT ![t] = idx[t] + 1]
            /\ pc' = [pc EXCEPT ![t] = "ensure"]
       ELSE /\ idx' = [idx EXCEPT ![t] = 1]
            /\ pc' = [pc EXCEPT ![t] = AfterEnsure(t)]
    /\ UNCHANGED <<finalized_slot, shard_of, parent, bank, read_account_ids,
                   write_account_ids, read_accounts, write_accounts, loaded, shard_i>>

\* return Err(LoadError::OneOrMoreAccountsLocked)
ReturnLocked(t) ==
    /\ pc' = [pc EXCEPT ![t] = "idle"]
    /\ DropHandles(t)
    /\ ResetCall(t)

\* The second loop: try_get on the next read id.
TryGet(t) ==
    /\ pc[t] = "read"
    /\ LET id == read_account_ids[t][idx[t]]
       IN  IF try_read(shard_of[id])
           THEN /\ read_accounts' = [read_accounts EXCEPT ![t] = Append(@, id)]
                /\ Advance(t, Len(read_account_ids[t]), AfterRead(t))
                /\ UNCHANGED <<read_account_ids, write_account_ids,
                               write_accounts, loaded>>
           ELSE ReturnLocked(t)
    /\ UNCHANGED <<accounts, finalized_slot, shard_of, parent, bank, shard_i>>

\* The third loop: try_get_mut on the next write id.
TryGetMut(t) ==
    /\ pc[t] = "write"
    /\ LET id == write_account_ids[t][idx[t]]
       IN  IF try_write(shard_of[id])
           THEN /\ write_accounts' = [write_accounts EXCEPT ![t] = Append(@, id)]
                /\ Advance(t, Len(write_account_ids[t]), "held")
                /\ UNCHANGED <<read_account_ids, write_account_ids,
                               read_accounts, loaded>>
           ELSE ReturnLocked(t)
    /\ UNCHANGED <<accounts, finalized_slot, shard_of, parent, bank, shard_i>>

\* ------------------------------------------------- the caller, handles in hand
\* load_account through a RefMut, with the ancestors of the Bank of slot s.
LoadAccount(t, id, s, cap) ==
    /\ pc[t] = "held"
    /\ id \in Range(write_accounts[t])
    /\ accounts' = [accounts EXCEPT ![id] = load_account(accounts[id], BankAt(s).ancestors)]
    /\ TotalInflight(accounts') <= cap
    /\ loaded' = [loaded EXCEPT ![t] = @ \cup {id}]
    /\ UNCHANGED <<finalized_slot, shard_of, parent, pc, bank, read_account_ids,
                   write_account_ids, idx, read_accounts, write_accounts, shard_i>>

\* An assignment to the balance behind the &mut Account of an earlier load_account.
Mutate(t, id, b) ==
    /\ pc[t] = "held"
    /\ id \in loaded[t]
    /\ accounts' = [accounts EXCEPT ![id] = assign_balance(accounts[id], b)]
    /\ UNCHANGED <<finalized_slot, shard_of, parent, pc, bank, read_account_ids,
                   write_account_ids, idx, read_accounts, write_accounts, loaded,
                   shard_i>>

\* set_account through a RefMut, at the slot of the Bank of slot s.
SetAccount(t, id, s, b, cap) ==
    /\ pc[t] = "held"
    /\ id \in Range(write_accounts[t])
    /\ accounts' = [accounts EXCEPT ![id] = set_account(accounts[id], Account(b), BankAt(s).slot)]
    /\ TotalInflight(accounts') <= cap
    /\ loaded' = [loaded EXCEPT ![t] = @ \ {id}]
    /\ UNCHANGED <<finalized_slot, shard_of, parent, pc, bank, read_account_ids,
                   write_account_ids, idx, read_accounts, write_accounts, shard_i>>

\* The handles go out of scope.
Drop(t) ==
    /\ pc[t] = "held"
    /\ pc' = [pc EXCEPT ![t] = "idle"]
    /\ DropHandles(t)
    /\ ResetCall(t)
    /\ UNCHANGED <<accounts, finalized_slot, shard_of, parent, bank, shard_i>>

\* ------------------------------------------------------------------ finalize
\* A plausible slip: the test of the tip against finalized_slot is left out.
FinalizeNoCheck(t, s) ==
    /\ pc[t] = "idle"
    /\ pc' = [pc EXCEPT ![t] = "fin_iter"]
    /\ bank' = [bank EXCEPT ![t] = s]
    /\ UNCHANGED <<accounts, finalized_slot, shard_of, parent, read_account_ids,
                   write_account_ids, idx, read_accounts, write_accounts, loaded,
                   shard_i>>

\* Bank::finalize on the Bank of slot s: the tip is compared with finalized_slot.
Finalize(t, s) ==
    /\ pc[t] = "idle"
    /\ IF Last(BankAt(s).ancestors) <= finalized_slot
       THEN UNCHANGED <<pc, bank>>
       ELSE /\ pc' = [pc EXCEPT ![t] = "fin_iter"]
            /\ bank' = [bank EXCEPT ![t] = s]
    /\ UNCHANGED <<accounts, finalized_slot, shard_of, parent, read_account_ids,
                   write_account_ids, idx, read_accounts, write_accounts, loaded,
                   shard_i>>

\* The closure of for_each, run on every VersionedAccount of shard s.
FinalizeShard(s, slots) ==
    [k \in DOMAIN accounts |->
        IF shard_of[k] = s
        THEN finalize_account(accounts[k], slots, Last(slots))
        ELSE accounts[k]]

\* iter_mut moves to the next shard: it waits for that shard's lock, lets go of
\* the shard before, and for_each runs the closure on the shard's accounts.
\* After the last shard's accounts the iterator ends at once and lets go of it.
FinalizeNextShard(t) ==
    /\ pc[t] = "fin_iter"
    /\ try_write(shard_i[t] + 1)
    /\ accounts' = FinalizeShard(shard_i[t] + 1, Ancestors(t))
    /\ IF shard_i[t] + 1 = NumShards
       THEN /\ pc' = [pc EXCEPT ![t] = "fin_store"]
            /\ shard_i' = [shard_i EXCEPT ![t] = 0]
       ELSE /\ shard_i' = [shard_i EXCEPT ![t] = shard_i[t] + 1]
            /\ UNCHANGED pc
    /\ UNCHANGED <<finalized_slot, shard_of, parent, bank, read_account_ids,
                   write_account_ids, idx, read_accounts, write_accounts, loaded>>

\* self.finalized_slot.store(tip)
FinalizeStore(t) ==
    /\ pc[t] = "fin_store"
    /\ finalized_slot' = Last(Ancestors(t))
    /\ pc' = [pc EXCEPT ![t] = "idle"]
    /\ bank' = [bank EXCEPT ![t] = 0]
    /\ UNCHANGED <<accounts, shard_of, parent, read_account_ids, write_account_ids,
                   idx, read_accounts, write_accounts, loaded, shard_i>>

\* ------------------------------------------------------------ specifications
\* The threads run together.  What a thread does to an account behind its RefMut
\* no other thread can see before the handle is dropped: here it is load_account.
Next ==
    \E t \in Threads :
        \/ \E a \in ParArgs : LoadVersionedAccounts(t, a[1], a[2])
        \/ EnsureContains(t)
        \/ EnsureInsert(t)
        \/ TryGet(t)
        \/ TryGetMut(t)
        \/ \E id \in AccountIds : \E s \in 0 .. MaxParSlot :
               LoadAccount(t, id, s, MaxParInflight)
        \/ Drop(t)
        \/ \E s \in 0 .. MaxParSlot : Finalize(t, s)
        \/ FinalizeNextShard(t)
        \/ FinalizeStore(t)

Spec == Init /\ [][Next]_vars

\* The scheduling of the threads.  A thread that is running takes its next
\* step: try_get, try_get_mut, the return, the drop of the handles, the store.
\* contains_key, insert and iter_mut wait for a shard's lock, and a waiter gets
\* the lock if it keeps coming free.
Fairness ==
    \A t \in Threads :
        /\ WF_vars(TryGet(t)) /\ WF_vars(TryGetMut(t))
        /\ WF_vars(Drop(t)) /\ WF_vars(FinalizeStore(t))
        /\ SF_vars(EnsureContains(t)) /\ SF_vars(EnsureInsert(t))
        /\ SF_vars(FinalizeNextShard(t))

SpecFair == Init /\ [][Next]_vars /\ Fairness

\* ------------------------------------------------------------- Bank::apply
\* The transfers: from and to differ, the amount is 1.
Amounts == {1}
ApplyArgs == {a \in CallArgs : a[1] = <<>> /\ a[2] \in {<<0, 1>>, <<1, 0>>}}

\* Bank::apply of the Bank of slot s once load_versioned_accounts has returned
\* Ok: load_account of both accounts, from.balance -= amount, to.balance +=
\* amount, and write_accounts goes out of scope.  The amount is at most the
\* sender's balance, so the subtraction does not wrap, and the sum stays far
\* below 2^64.  (A call that returned Err makes expect panic: the thread is
\* left with no handle and the store as it is.)
ApplyTransfer(t, s, amount) ==
    /\ pc[t] = "held"
    /\ Len(write_accounts[t]) = 2
    /\ LET from_id == write_accounts[t][1]
           to_id == write_accounts[t][2]
           from_va == load_account(accounts[from_id], BankAt(s).ancestors)
           to_va == load_account(accounts[to_id], BankAt(s).ancestors)
           from_balance == Last(from_va.inflight_updates)[2].balance
           to_balance == Last(to_va.inflight_updates)[2].balance
       IN  /\ amount <= from_balance
           /\ to_id = 1 => to_balance + amount <= MaxMoved
           /\ accounts' = [accounts EXCEPT
                  ![from_id] = assign_balance(from_va, from_balance - amount),
                  ![to_id] = assign_balance(to_va, to_balance + amount)]
           /\ TotalInflight(accounts') <= MaxApplyInflight
    /\ pc' = [pc EXCEPT ![t] = "idle"]
    /\ DropHandles(t)
    /\ ResetCall(t)
    /\ UNCHANGED <<finalized_slot, shard_of, parent, bank, shard_i>>

\* Threads that run Bank::apply and Bank::finalize on the banks of a fork tree.
NextApply ==
    \E t \in Threads :
        \/ \E a \in ApplyArgs : LoadVersionedAccounts(t, a[1], a[2])
        \/ EnsureContains(t)
        \/ EnsureInsert(t)
        \/ TryGetMut(t)
        \/ \E s \in 0 .. MaxParSlot : \E amount \in Amounts : ApplyTransfer(t, s, amount)
        \/ \E s \in 0 .. MaxParSlot : Finalize(t, s)
        \/ FinalizeNextShard(t)
        \/ FinalizeStore(t)

SpecApply == Init /\ [][NextApply]_vars

\* One caller runs alone, one write handle at a time: no lock is contended and
\* the shards play no part.
InitSeq ==
    /\ accounts = genesis_database.accounts
    /\ finalized_slot = genesis_database.finalized_slot
    /\ shard_of = [id \in AccountIds |-> 1]
    /\ parent \in ForkTrees(MaxSlot)
    /\ ThreadsIdle

SeqArgs == {a \in CallArgs : Len(a[1]) = 0 /\ Len(a[2]) = 1}

NextSeq ==
    \E t \in {"t1"} :
        \/ \E a \in SeqArgs : LoadVersionedAccounts(t, a[1], a[2])
        \/ EnsureInsert(t)
        \/ TryGetMut(t)
        \/ \E id \in AccountIds : \E s \in Slots : LoadAccount(t, id, s, MaxInflight)
        \/ \E id \in AccountIds : \E b \in Balances : Mutate(t, id, b)
        \/ \E id \in AccountIds : \E s \in Slots : \E b \in Balances :
               SetAccount(t, id, s, b, MaxInflight)
        \/ Drop(t)
        \/ \E s \in Slots : Finalize(t, s)
        \/ FinalizeNextShard(t)
        \/ FinalizeStore(t)

SpecSeq == InitSeq /\ [][NextSeq]_vars

\* ------------------------------------------------------------------ claims
\* The handles on account id that are live: the Refs and the RefMuts the threads
\* hold, each a position of a thread's read_accounts or write_accounts.
SharedHandles(id) ==
    {<<t, i>> \in Threads \X (1 .. 2) :
        i <= Len(read_accounts[t]) /\ read_accounts[t][i] = id}
ExclusiveHandles(id) ==
    {<<t, i>> \in Threads \X (1 .. 2) :
        i <= Len(write_accounts[t]) /\ write_accounts[t][i] = id}

\* C1: in every reachable state and for every account id, the live handles of
\* load_versioned_accounts are any number of shared handles and no exclusive
\* one, or exactly one exclusive handle and no shared one; of two threads that
\* ask for the exclusive handle of the same id at once, at most one holds it.
C1_HandleMutualExclusion ==
    \A id \in AccountIds :
        \/ ExclusiveHandles(id) = {}
        \/ Cardinality(ExclusiveHandles(id)) = 1 /\ SharedHandles(id) = {}

\* One thread holds the exclusive handle of an id while the other is about to
\* try_get_mut the same id, and will be told Locked.
C1_Witness ==
    \E t \in Threads, u \in Threads, id \in AccountIds :
        /\ t # u
        /\ pc[t] = "held" /\ write_accounts[t] = <<id>>
        /\ pc[u] = "write" /\ write_account_ids[u][idx[u]] = id
        /\ ~try_write(shard_of[id])

\* C2: the entry-creation step of load_versioned_accounts never replaces an
\* existing VersionedAccount (its finalized value, its inflight updates) by an
\* empty one, so no write made through a handle is lost.
C2_InsertNeverClobbers ==
    [][\A t \in Threads :
          EnsureInsert(t) =>
              \A k \in DOMAIN accounts : accounts'[k] = accounts[k]]_vars

\* C10, the parts.  A call that returns OneOrMoreAccountsLocked (from the second
\* or third loop back to idle) leaves its thread no handle and the accounts as
\* they were.
FailureReleases(t) ==
    (pc[t] \in {"read", "write"} /\ pc'[t] = "idle") =>
        /\ read_accounts'[t] = <<>>
        /\ write_accounts'[t] = <<>>
        /\ accounts' = accounts

\* A call that returns Ok hands over one handle per requested id, in order.
SuccessHandsAll(t) ==
    (pc[t] # "held" /\ pc'[t] = "held") =>
        /\ read_accounts'[t] = read_account_ids'[t]
        /\ write_accounts'[t] = write_account_ids'[t]

\* The call inserts only at the id its contains_key has just found absent, and
\* no step of the call changes any other entry; no key ever leaves the map.  An
\* account that is there when the call begins is therefore never one the call
\* inserts at, and the call leaves it as it is.
CallFrame(t) ==
    /\ DOMAIN accounts \subseteq DOMAIN accounts'
    /\ (pc[t] # "insert" /\ pc'[t] = "insert") =>
           /\ AllIds(t)'[idx'[t]] \notin DOMAIN accounts
           /\ accounts' = accounts
    /\ (pc[t] \in {"ensure", "read", "write"} /\ (pc'[t] # pc[t] \/ idx'[t] # idx[t])) =>
           accounts' = accounts
    /\ (pc[t] = "insert" /\ pc'[t] # "insert") =>
           \A k \in DOMAIN accounts :
               k # AllIds(t)[idx[t]] => accounts'[k] = accounts[k]

\* C10: load_versioned_accounts is all-or-nothing: when it returns
\* OneOrMoreAccountsLocked the caller holds no shared or exclusive handle and
\* every account that was there before the call is unchanged; when it returns Ok
\* it returns one handle per requested id.
C10_AcquireAllOrNothing ==
    [][\A t \in Threads : FailureReleases(t) /\ SuccessHandsAll(t) /\ CallFrame(t)]_vars

\* A call has taken the handle of its first id and finds its second id locked:
\* the next step returns Locked, having to let go of what it took.
C10_Witness ==
    \E t \in Threads :
        /\ pc[t] = "write" /\ idx[t] = 2
        /\ Len(write_accounts[t]) = 1
        /\ ~try_write(shard_of[write_account_ids[t][2]])

\* ------------------------------------------- claims on one caller running alone
\* C3: once finalize(A) with tip t has completed, finalized_slot >= t and no
\* VersionedAccount has an inflight update whose slot is <= t.
C3_FinalizePostcondition ==
    [][\A t \in Threads :
          FinalizeStore(t) =>
              /\ finalized_slot' >= Last(Ancestors(t))
              /\ \A k \in DOMAIN accounts' :
                     \A i \in 1 .. Len(accounts'[k].inflight_updates) :
                         accounts'[k].inflight_updates[i][1] > Last(Ancestors(t))]_vars

\* Fork B has a slot that the finalized chain A has not, and ends at or below
\* A's tip.
LosingFork(B, A) ==
    /\ Last(B) <= Last(A)
    /\ \E i \in 1 .. Len(B) : ~Contains(A, B[i])

\* C4: once finalize(A) with tip t has completed, every fork B whose tip is <= t
\* and which has a slot that A has not reads, for every account, the account's
\* new finalized value and no value written at a slot of B alone.
C4_SiblingPrune ==
    [][\A t \in Threads :
          FinalizeStore(t) =>
              \A B \in Chains :
                  LosingFork(B, Ancestors(t)) =>
                      \A k \in DOMAIN accounts' :
                          get_account(accounts'[k], B) = accounts'[k].finalized_acc]_vars

\* C5: for every account, get_account(A) after finalize(A) returns what
\* get_account(A) returned before it: every step of finalize that runs the
\* closure on accounts, and the store of finalized_slot, leaves it the same.
C5_FinalizePreservesWinner ==
    [][\A t \in Threads :
          (FinalizeNextShard(t) \/ FinalizeStore(t)) =>
              \A k \in DOMAIN accounts :
                  get_account(accounts'[k], Ancestors(t))
                      = get_account(accounts[k], Ancestors(t))]_vars

\* finalize has run its closure, no finalize has ended before it, and an account
\* now has as finalized value one that a caller assigned on the winning fork,
\* after an update of a losing fork was there to discard.
C5_Witness ==
    \E t \in Threads, k \in DOMAIN accounts :
        /\ pc[t] = "fin_store" /\ finalized_slot = 0
        /\ accounts[k].finalized_acc = Some(Account(1))
        /\ get_account(accounts[k], Ancestors(t)) = Some(Account(1))
        /\ Len(Ancestors(t)) > 1

\* The slot a step of thread t writes account id at, as a set: the tip of
\* load_account's chain, the slot of set_account, the slot of the update behind
\* the &mut Account that is assigned to.
WrittenSlots(t, id) ==
    {s \in Slots :
        \/ LoadAccount(t, id, s, MaxInflight)
        \/ \E b \in Balances : SetAccount(t, id, s, b, MaxInflight)
        \/ /\ \E b \in Balances : Mutate(t, id, b)
           /\ s = Last(accounts[id].inflight_updates)[1]}

\* C6: a load_account on fork A, an assignment to the Account it returned, or a
\* set_account at the tip of A leaves get_account(B) as it was, for every
\* account and every fork B that does not hold the tip of A.
C6_ForkIsolation ==
    [][\A t \in Threads :
          (pc[t] = "held" /\ accounts' # accounts) =>
              \A id \in Range(write_accounts[t]) :
                  \A s \in WrittenSlots(t, id) :
                      \A B \in Chains :
                          ~Contains(B, s) =>
                              \A k \in DOMAIN accounts :
                                  get_account(accounts'[k], B)
                                      = get_account(accounts[k], B)]_vars

\* An account holds updates of two forks neither of which is on the other's
\* chain, and the two forks read different values of it.
C6_Witness ==
    \E k \in DOMAIN accounts, a \in Slots, b \in Slots :
        /\ ~Contains(BankAt(a).ancestors, b) /\ ~Contains(BankAt(b).ancestors, a)
        /\ Included(accounts[k].inflight_updates, <<a>>) # {}
        /\ Included(accounts[k].inflight_updates, <<b>>) # {}
        /\ get_account(accounts[k], BankAt(a).ancestors)
               # get_account(accounts[k], BankAt(b).ancestors)

\* The account behind the &mut Account that load_account returns: the last
\* inflight update's.
Returned(va) == Last(va.inflight_updates)[2]

\* load_account on chain A returns an update at the tip of A that holds what
\* get_account(A) returned before it, or the default where that was None, and
\* get_account(A) now returns it; when the last update is already at the tip,
\* that same update is returned and nothing is added.
LoadReturnsWhatReadSaw(va, va2, A) ==
    /\ va2.inflight_updates # <<>>
    /\ Last(va2.inflight_updates)[1] = Last(A)
    /\ Returned(va2) = IF get_account(va, A) # NoneOpt
                       THEN get_account(va, A)[1]
                       ELSE DefaultAccount
    /\ get_account(va2, A) = Some(Returned(va2))
    /\ (va.inflight_updates # <<>> /\ Last(va.inflight_updates)[1] = Last(A))
           => va2 = va

\* C7: after load_account(A) and an assignment of v to the Account it returned,
\* or after set_account(v, tip(A)), get_account(A) returns v, for every chain A
\* of that tip; a load at the slot of the last update returns that update, so a
\* later load in the slot sees the edit made before it.
C7_WriteReadLaw ==
    [][\A t \in Threads :
          (pc[t] = "held" /\ pc'[t] = "held") =>
              \A id \in Range(write_accounts[t]) :
                  /\ \A b \in Balances :
                         Mutate(t, id, b) =>
                             \A A \in Chains :
                                 Last(A) = Last(accounts[id].inflight_updates)[1] =>
                                     get_account(accounts'[id], A) = Some(Account(b))
                  /\ \A s \in Slots, b \in Balances :
                         SetAccount(t, id, s, b, MaxInflight) =>
                             \A A \in Chains :
                                 Last(A) = s =>
                                     get_account(accounts'[id], A) = Some(Account(b))
                  /\ \A s \in Slots :
                         LoadAccount(t, id, s, MaxInflight) =>
                             LoadReturnsWhatReadSaw(accounts[id], accounts'[id],
                                                    BankAt(s).ancestors)]_vars

\* The Account a load_account returned has been assigned to, behind an update of
\* another fork, and the chain of its slot reads the assigned value.
C7_Witness ==
    \E t \in Threads, id \in DOMAIN accounts :
        /\ pc[t] = "held" /\ id \in loaded[t]
        /\ Len(accounts[id].inflight_updates) > 1
        /\ Returned(accounts[id]) = Account(1)
        /\ accounts[id].inflight_updates[1][2] # Account(1)
        /\ get_account(accounts[id],
                       BankAt(Last(accounts[id].inflight_updates)[1]).ancestors)
               = Some(Account(1))

\* C8: in every reachable state every VersionedAccount's inflight queue has
\* strictly increasing slots, hence at most one update per slot.
C8_InflightStrictlyIncreasing ==
    \A k \in DOMAIN accounts :
        \A i \in 1 .. Len(accounts[k].inflight_updates) - 1 :
            accounts[k].inflight_updates[i][1] < accounts[k].inflight_updates[i + 1][1]

\* C9: in every reachable state every inflight update of every VersionedAccount
\* has a slot strictly greater than finalized_slot.
C9_InflightAboveFinalized ==
    \A k \in DOMAIN accounts :
        \A i \in 1 .. Len(accounts[k].inflight_updates) :
            accounts[k].inflight_updates[i][1] > finalized_slot

\* --------------------------------------- claims on finalize beside the callers
\* The accounts thread t holds a Ref or a RefMut of.
Held(t) == Range(read_accounts[t]) \cup Range(write_accounts[t])

\* The finalized value account k has in the genesis database.
GenesisFinalized(k) ==
    IF k \in DOMAIN genesis_database.accounts
    THEN genesis_database.accounts[k].finalized_acc
    ELSE NoneOpt

\* The finalize that thread u is running has promoted an update of account k:
\* no finalize has ended yet, u's iterator is past k's shard, and k's finalized
\* value is not the one of genesis.
PromotedBy(u, k) ==
    /\ pc[u] = "fin_iter" /\ finalized_slot = genesis_database.finalized_slot
    /\ shard_of[k] <= shard_i[u]
    /\ accounts[k].finalized_acc # GenesisFinalized(k)

\* The finalize that thread u is running has not come to account k, which holds
\* an update of the winning chain for it to promote.
AwaitedBy(u, k) ==
    /\ pc[u] = "fin_iter"
    /\ shard_of[k] > shard_i[u]
    /\ Included(accounts[k].inflight_updates, Ancestors(u)) # {}

\* C11: while finalize(A) runs beside the callers, no caller is handed handles of
\* several accounts of which some have had their updates at slots <= tip(A)
\* promoted and others still await it: the winning fork's values become
\* visible in one atomic step.
C11_AtomicCommit ==
    [][\A t \in Threads, u \in Threads :
          (pc[t] # "held" /\ pc'[t] = "held") =>
              ~ \E k1 \in Held(t)', k2 \in Held(t)' :
                    PromotedBy(u, k1)' /\ AwaitedBy(u, k2)']_vars

\* C12: finalized_slot starts at 0 and its value never decreases, also when
\* several finalize calls with different tips run at once.
C12_FinalizedSlotMonotonic ==
    [][finalized_slot' >= finalized_slot]_vars

\* C13: a finalize call whose tip is <= finalized_slot changes nothing: only a
\* call whose tip is above finalized_slot gets to the accounts and to the
\* store, and when it ends its tip is <= finalized_slot, so the same call made
\* again leaves the store as the first one left it.
C13_StaleFinalizeNoOp ==
    [][\A t \in Threads :
          /\ (pc[t] = "idle" /\ pc'[t] = "fin_iter") =>
                 Last(BankAt(bank'[t]).ancestors) > finalized_slot
          /\ FinalizeStore(t) => Last(Ancestors(t)) <= finalized_slot']_vars

\* A finalize has ended, its bank can be finalized again, and an account holds
\* as its first update one on that bank's chain, written after the finalize:
\* a second pass would promote it.
C13_Witness ==
    \E t \in Threads, k \in DOMAIN accounts :
        /\ pc[t] = "idle" /\ finalized_slot > 0
        /\ accounts[k].inflight_updates # <<>>
        /\ Head(accounts[k].inflight_updates)[1] = finalized_slot
        /\ Some(Head(accounts[k].inflight_updates)[2]) # accounts[k].finalized_acc

\* Thread t is in a call that returns OneOrMoreAccountsLocked in this step.
ReturnsLocked(t) == pc[t] \in {"read", "write"} /\ pc'[t] = "idle"

\* The id the try_get or try_get_mut of thread t is at.
TriedId(t) ==
    IF pc[t] = "read" THEN read_account_ids[t][idx[t]] ELSE write_account_ids[t][idx[t]]

\* Account id is held by another caller in a way that rules out what thread t
\* asks for (a RefMut rules out all, a Ref rules out a RefMut), or finalize is
\* at its shard.
HeldIncompatibly(t, id) ==
    \/ \E u \in Threads \ {t} :
           \/ id \in Range(write_accounts[u])
           \/ pc[t] = "write" /\ id \in Range(read_accounts[u])
    \/ \E u \in Threads : pc[u] = "fin_iter" /\ shard_i[u] = shard_of[id]

\* C15: load_versioned_accounts returns OneOrMoreAccountsLocked only when a
\* requested account is held incompatibly by another caller or is being
\* processed by finalize; a call that names an id in both lists, or twice in
\* write_account_ids, succeeds when nobody else holds the account.
C15_LockedOnlyOnContention ==
    [][\A t \in Threads : ReturnsLocked(t) => HeldIncompatibly(t, TriedId(t))]_vars

\* Every call that has begun ends: load_versioned_accounts returns and its
\* handles are dropped, finalize gets through the shards and stores the tip.
EveryCallEnds == \A t \in Threads : (pc[t] # "idle") ~> (pc[t] = "idle")

\* No other thread holds a handle and no finalize is walking the map.
NobodyElse(t) ==
    \A u \in Threads \ {t} : Held(u) = {} /\ pc[u] # "fin_iter"

\* An acquire made when every handle of the others has been dropped and no
\* finalize is in progress does not return OneOrMoreAccountsLocked.
RetrySucceeds == [][\A t \in Threads : ReturnsLocked(t) => ~NobodyElse(t)]_vars

\* C14: with callers that acquire, load and drop, and finalize calls beside
\* them, under fair scheduling no thread is blocked forever and every finalize
\* call completes; an acquire retried once every conflicting handle has been
\* dropped, with no finalize in progress, succeeds.
C14_DeadlockFreedomAndProgress == EveryCallEnds /\ RetrySucceeds

\* Thread t is handed a Ref or a RefMut in this step.
Acquires(t) ==
    Len(read_accounts'[t]) + Len(write_accounts'[t])
        > Len(read_accounts[t]) + Len(write_accounts[t])

\* C16: a caller that reads finalized_slot = S and then acquires a handle of an
\* account, one made or written while the finalize that set S ran included,
\* finds no inflight update of slot <= S in it.  Here S is read in the state
\* the handle is acquired from.
C16_FinalizedSlotVisibility ==
    [][\A t \in Threads :
          Acquires(t) =>
              \A i \in 1 .. Len(accounts[TriedId(t)].inflight_updates) :
                  accounts[TriedId(t)].inflight_updates[i][1] > finalized_slot]_vars

\* ------------------------------- more claims on one caller running alone
\* C17: after finalize(A) with tip t > finalized_slot, every account that had
\* an inflight update of a slot in A has as finalized value the value of the
\* most recently written such update, which is what get_account(A) returned
\* before; every other account keeps its finalized value.  Stated of the step
\* in which finalize runs its closure on the accounts of a shard.
C17_FinalizePromotesLatest ==
    [][\A t \in Threads :
          FinalizeNextShard(t) =>
              \A k \in DOMAIN accounts :
                  shard_of[k] = shard_i[t] + 1 =>
                      IF Included(accounts[k].inflight_updates, Ancestors(t)) # {}
                      THEN accounts'[k].finalized_acc
                               = get_account(accounts[k], Ancestors(t))
                      ELSE accounts'[k].finalized_acc = accounts[k].finalized_acc]_vars

\* load_account on chain A takes va to va2: the Account handed out is what
\* get_account(A) returned before, or the default; the finalized value and the
\* updates that were there are as they were; at most one update is added, at
\* the tip, and none when the last update is at the tip already.
CopyOnWrite(va, va2, A) ==
    LET q == va.inflight_updates
        q2 == va2.inflight_updates
    IN  /\ q2 # <<>>
        /\ Returned(va2) = IF get_account(va, A) # NoneOpt
                           THEN get_account(va, A)[1]
                           ELSE DefaultAccount
        /\ va2.finalized_acc = va.finalized_acc
        /\ Len(q2) \in {Len(q), Len(q) + 1}
        /\ SubSeq(q2, 1, Len(q)) = q
        /\ Len(q2) = Len(q) + 1 => Last(q2)[1] = Last(A)
        /\ (q # <<>> /\ Last(q)[1] = Last(A)) => Len(q2) = Len(q)

\* C18: the value load_account(A) hands out is what get_account(A) returned
\* just before the call, or the default Account when that was absent;
\* load_account appends at most one update, at tip(A), none when the tail is at
\* tip(A) already, and changes neither the finalized value nor any update that
\* was there.
C18_LoadCopyOnWrite ==
    [][\A t \in Threads :
          (pc[t] = "held" /\ pc'[t] = "held") =>
              \A id \in Range(write_accounts[t]), s \in Slots :
                  LoadAccount(t, id, s, MaxInflight) =>
                      CopyOnWrite(accounts[id], accounts'[id], BankAt(s).ancestors)]_vars

\* load_account has copied an assigned value from an update of an ancestor
\* slot, not from the finalized value.
C18_Witness ==
    \E t \in Threads, id \in DOMAIN accounts :
        LET q == accounts[id].inflight_updates
        IN  /\ pc[t] = "held" /\ id \in loaded[t]
            /\ Len(q) = 2
            /\ q[1][1] # q[2][1]
            /\ Contains(BankAt(q[2][1]).ancestors, q[1][1])
            /\ q[1][2] = Account(1) /\ q[2][2] = Account(1)
            /\ accounts[id].finalized_acc # Some(Account(1))

\* The updates of q whose slot is above the tip, in their order.
Above(q, tip) == SelectSeq(q, LAMBDA e : e[1] > tip)

\* Sequence a is b with some elements left out.
RECURSIVE IsSubseq(_, _)
IsSubseq(a, b) ==
    IF a = <<>> THEN TRUE
    ELSE IF b = <<>> THEN FALSE
    ELSE IF Head(a) = Head(b) THEN IsSubseq(Tail(a), Tail(b))
    ELSE IsSubseq(a, Tail(b))

\* C19: finalize(A) with tip t never removes or changes an inflight update of
\* slot > t, keeps the order of the updates it keeps, adds and removes no
\* account id, and gives an account a new finalized value only from one of
\* that account's updates whose slot is in A and <= t.
C19_FinalizeFrame ==
    [][\A t \in Threads :
          FinalizeNextShard(t) =>
              LET A == Ancestors(t)
                  tip == Last(A)
              IN  /\ DOMAIN accounts' = DOMAIN accounts
                  /\ \A k \in DOMAIN accounts :
                         LET q == accounts[k].inflight_updates
                             q2 == accounts'[k].inflight_updates
                         IN  /\ Above(q2, tip) = Above(q, tip)
                             /\ IsSubseq(q2, q)
                             /\ \/ accounts'[k].finalized_acc = accounts[k].finalized_acc
                                \/ \E i \in 1 .. Len(q) :
                                       /\ Contains(A, q[i][1]) /\ q[i][1] <= tip
                                       /\ accounts'[k].finalized_acc = Some(q[i][2])]_vars

\* finalize has promoted an assigned value in an account and left in it an
\* update of a slot above the tip.
C19_Witness ==
    \E t \in Threads, k \in DOMAIN accounts :
        /\ pc[t] = "fin_store" /\ finalized_slot = 0
        /\ accounts[k].finalized_acc = Some(Account(1))
        /\ accounts[k].inflight_updates # <<>>
        /\ Head(accounts[k].inflight_updates)[1] > Last(Ancestors(t))

\* ------------------------------------------------------ claims on Bank::apply
\* The balance Bank::get_account gives for id on chain A, absent counted as 0.
BalanceOn(A, id) ==
    IF BankGetAccount(A, id) = NoneOpt THEN 0 ELSE BankGetAccount(A, id)[1].balance

RECURSIVE SumBalances(_, _)
SumBalances(A, S) ==
    IF S = {} THEN 0
    ELSE LET id == CHOOSE x \in S : TRUE
         IN  BalanceOn(A, id) + SumBalances(A, S \ {id})

\* C20: from genesis, with only Bank::apply transfers (from # to, amount at
\* most the sender's balance on the fork) and finalize calls, the balances that
\* get_account gives on any fork whose chain holds the finalized slot sum to
\* GENESIS_SUPPLY, and none is above it.  Stated of the states in which no
\* call is in progress.
C20_SupplyConservation ==
    (\A t \in Threads : pc[t] = "idle") =>
        \A s \in Slots :
            Contains(BankAt(s).ancestors, finalized_slot) =>
                /\ SumBalances(BankAt(s).ancestors, AccountIds) = GENESIS_SUPPLY
                /\ \A id \in AccountIds :
                       BalanceOn(BankAt(s).ancestors, id) <= GENESIS_SUPPLY

=============================================================================
